---------------------------- MODULE Spec2Model ----------------------------
(***************************************************************************)
(* Scroll-driven rocket launch sequence (src/components/ThreeScene.tsx).   *)
(*                                                                         *)
(* The component keeps a scroll percentage, derives from it once per       *)
(* animation frame the pose of the rocket, its boosters, the fairing       *)
(* halves and the satellite, the visibility of the ground / earth / stars  *)
(* groups, the mission telemetry and the exhaust intensity, and advances   *)
(* a fixed pool of exhaust particles.                                      *)
(*                                                                         *)
(* JavaScript numbers are modelled as exact rationals <<n, d>> in lowest   *)
(* terms with d > 0, extended with the IEEE-754 specials that the code can *)
(* produce by dividing by zero: <<1, 0>> is +Infinity, <<-1, 0>> is        *)
(* -Infinity and <<0, 0>> is NaN.  Angles are kept in units of pi.         *)
(***************************************************************************)
EXTENDS Integers, Sequences, FiniteSets

-----------------------------------------------------------------------------
(* Numbers *)

Sgn(n) == IF n > 0 THEN 1 ELSE IF n < 0 THEN -1 ELSE 0

Abs(n) == IF n < 0 THEN -n ELSE n

RECURSIVE Gcd(_, _)
Gcd(a, b) == IF b = 0 THEN a ELSE Gcd(b, a % b)

\* The number n / d in lowest terms; a zero denominator gives a special.
Q(n, d) ==
    IF d = 0 THEN <<Sgn(n), 0>>
    ELSE LET g == Gcd(Abs(n), Abs(d))
             s == IF d < 0 THEN -1 ELSE 1
         IN  <<s * (n \div g), s * (d \div g)>>

Num(i) == <<i, 1>>

NaN == <<0, 0>>

Zero == <<0, 1>>

One == <<1, 1>>

IsNaN(a) == a = NaN

IsFinite(a) == a[2] # 0

Neg(a) == <<-a[1], a[2]>>

Add(a, b) ==
    IF IsNaN(a) \/ IsNaN(b) THEN NaN
    ELSE IF a[2] = 0 /\ b[2] = 0 THEN (IF a[1] = b[1] THEN a ELSE NaN)
    ELSE IF a[2] = 0 THEN a
    ELSE IF b[2] = 0 THEN b
    ELSE LET g == Gcd(a[2], b[2])
         IN  Q(a[1] * (b[2] \div g) + b[1] * (a[2] \div g), (a[2] \div g) * b[2])

Sub(a, b) == Add(a, Neg(b))

Mul(a, b) ==
    IF IsNaN(a) \/ IsNaN(b) THEN NaN
    ELSE IF a[2] = 0 \/ b[2] = 0 THEN <<Sgn(a[1]) * Sgn(b[1]), 0>>
    ELSE LET g1 == Gcd(Abs(a[1]), b[2])
             g2 == Gcd(Abs(b[1]), a[2])
         IN  Q((a[1] \div g1) * (b[1] \div g2), (a[2] \div g2) * (b[2] \div g1))

\* 1 / a; the zero of the model is +0, so 1 / 0 is +Infinity.
Recip(a) ==
    IF IsNaN(a) THEN NaN
    ELSE IF a[2] = 0 THEN Zero
    ELSE IF a[1] = 0 THEN <<1, 0>>
    ELSE IF a[1] < 0 THEN <<-a[2], -a[1]>>
    ELSE <<a[2], a[1]>>

Div(a, b) == Mul(a, Recip(b))

\* Sign of n1/d1 - n2/d2 for d1, d2 > 0, by continued fractions: no product
\* is formed, so the comparison cannot overflow.
RECURSIVE CmpFrac(_, _, _, _)
CmpFrac(n1, d1, n2, d2) ==
    LET q1 == n1 \div d1
        q2 == n2 \div d2
        r1 == n1 % d1
        r2 == n2 % d2
    IN  IF q1 # q2 THEN (IF q1 < q2 THEN -1 ELSE 1)
        ELSE IF r1 = 0 /\ r2 = 0 THEN 0
        ELSE IF r1 = 0 THEN -1
        ELSE IF r2 = 0 THEN 1
        ELSE CmpFrac(d2, r2, d1, r1)

\* Sign of a - b for numbers that are not NaN.
Cmp(a, b) ==
    IF a[2] = 0 \/ b[2] = 0
    THEN LET x == IF a[2] = 0 THEN 2 * a[1] ELSE 0
             y == IF b[2] = 0 THEN 2 * b[1] ELSE 0
         IN  Sgn(x - y)
    ELSE CmpFrac(a[1], a[2], b[1], b[2])

\* The comparison operators of JavaScript: false as soon as one side is NaN.
Lt(a, b) == ~IsNaN(a) /\ ~IsNaN(b) /\ Cmp(a, b) < 0

Le(a, b) == ~IsNaN(a) /\ ~IsNaN(b) /\ Cmp(a, b) <= 0

Gt(a, b) == Lt(b, a)

Ge(a, b) == Le(b, a)

\* Math.min without the comparison: the second argument comes back as it is.
\* A frame computed with it hands the unclamped ramp to the particle pool.
MathMinUnclamped(a, b) == b

\* Math.min and Math.max: NaN as soon as one argument is NaN.
MathMin(a, b) == IF IsNaN(a) \/ IsNaN(b) THEN NaN ELSE IF Le(a, b) THEN a ELSE b

MathMax(a, b) == IF IsNaN(a) \/ IsNaN(b) THEN NaN ELSE IF Ge(a, b) THEN a ELSE b

Cube(a) == Mul(a, Mul(a, a))

Pow5(a) == Mul(a, Mul(Mul(a, a), Mul(a, a)))

-----------------------------------------------------------------------------
(* Helpers of the component *)

\* lerp = (start, end, alpha) => start * (1 - alpha) + end * alpha
lerp(start, end, alpha) == Add(Mul(start, Sub(One, alpha)), Mul(end, alpha))

\* t < 0.5 ? 4 * t * t * t : 1 - Math.pow(-2 * t + 2, 3) / 2
easeInOutCubic(t) ==
    IF Lt(t, Q(1, 2)) THEN Mul(Num(4), Cube(t))
    ELSE Sub(One, Div(Cube(Add(Mul(Num(-2), t), Num(2))), Num(2)))

\* t < 0.5 ? 16 * t^5 : 1 - Math.pow(-2 * t + 2, 5) / 2
easeInOutQuint(t) ==
    IF Lt(t, Q(1, 2)) THEN Mul(Num(16), Pow5(t))
    ELSE Sub(One, Div(Pow5(Add(Mul(Num(-2), t), Num(2))), Num(2)))

earthRadius == 50

groundLaunchY == 0

\* A launch pad three units below the surface of the earth.
launchpadYBelowSurface == earthRadius - 3

launchpadY == earthRadius + 3

stageSep == Q(3, 10)

\* The pose fields of the scene graph that the frame handler writes.  The
\* satellite's orbital position and rotation are functions of the orbit angle
\* (cos / sin); they are kept as the angle they are computed from.
InitScene ==
    [ rocketY       |-> Num(0),
      groundVisible |-> TRUE,
      earthVisible  |-> TRUE,
      starsVisible  |-> TRUE,
      boosters      |-> << [x |-> Q(-35, 10), y |-> Num(7), z |-> Num(0), rz |-> Num(0)],
                           [x |-> Q(35, 10),  y |-> Num(7), z |-> Num(0), rz |-> Num(0)] >>,
      fairingL      |-> [x |-> Num(0), rz |-> Num(0)],
      fairingR      |-> [x |-> Num(0), rz |-> Num(0)],
      satVisible    |-> FALSE,
      satPosition   |-> [kind |-> "xyz", x |-> Num(0), y |-> Num(0), z |-> Num(0)],
      satRotation   |-> [kind |-> "xyz"],
      solarPanels   |-> << Q(1, 2), Q(-1, 2) >> ]

NoMission == [phase |-> "", altitude |-> Num(0), velocity |-> Num(0)]

\* A frame record whose rocket-centred phases start the orbit accumulator
\* over.
FrameOrbitReset(sc, intensity, mission, subject, ot) ==
    [ scene |-> sc, exhaustIntensity |-> intensity, missionData |-> mission,
      primarySubject |-> subject,
      orbitTime |-> IF subject = "rocket" THEN Zero ELSE ot ]

\* What the phase chain of one frame leaves behind: the scene graph, the
\* locals exhaustIntensity, missionData and primarySubject, and orbitTime.
Frame(sc, intensity, mission, subject, ot) ==
    [ scene |-> sc, exhaustIntensity |-> intensity, missionData |-> mission,
      primarySubject |-> subject, orbitTime |-> ot ]

GroundView(sc, y) ==
    [sc EXCEPT !.rocketY = y, !.groundVisible = TRUE,
               !.earthVisible = FALSE, !.starsVisible = FALSE]

SpaceView(sc, y) ==
    [sc EXCEPT !.rocketY = y, !.groundVisible = FALSE,
               !.earthVisible = TRUE, !.starsVisible = TRUE]

-----------------------------------------------------------------------------
(* The animation phases, one operator per branch of the chain *)

\* The pre-launch branch with the engines already venting.
PreLaunchVenting(p, sc, ot) ==
    Frame(GroundView(sc, Num(groundLaunchY)), Q(1, 10),
          [phase |-> "Pre-Launch Countdown", altitude |-> Num(0), velocity |-> Num(0)],
          "rocket", ot)

PreLaunch(p, sc, ot) ==
    Frame(GroundView(sc, Num(groundLaunchY)), Num(0),
          [phase |-> "Pre-Launch Countdown", altitude |-> Num(0), velocity |-> Num(0)],
          "rocket", ot)

Ignition(p, sc, ot) ==
    LET phaseProgress == Div(Sub(p, Q(5, 100)), Q(5, 100))
    IN  Frame(GroundView(sc, Num(groundLaunchY)),
              lerp(Num(0), Q(3, 10), phaseProgress),
              [phase |-> "Ignition Sequence", altitude |-> Num(0), velocity |-> Num(0)],
              "rocket", ot)

GroundLiftoff(p, sc, ot) ==
    LET phaseProgress == easeInOutCubic(Div(Sub(p, Q(10, 100)), Q(25, 100)))
        y == lerp(Num(groundLaunchY), Num(groundLaunchY + 50), phaseProgress)
    IN  Frame(GroundView(sc, y),
              MathMin(Q(7, 10), Mul(phaseProgress, Q(12, 10))),
              [phase |-> "Ground Liftoff", altitude |-> Mul(y, Num(2)),
               velocity |-> lerp(Num(0), Q(18, 100), phaseProgress)],
              "rocket", ot)

\* The transition with a hard cut: the ground is hidden by the same ramp and
\* threshold that shows the earth.
AscendingToOrbitHardCut(p, sc, ot) ==
    LET phaseProgress == easeInOutQuint(Div(Sub(p, Q(35, 100)), Q(15, 100)))
        y == lerp(Num(groundLaunchY + 50), Num(launchpadY), phaseProgress)
        fadeIn == MathMax(Num(0), MathMin(Num(1),
                       Div(Sub(phaseProgress, Q(5, 100)), Q(5, 10))))
    IN  Frame([sc EXCEPT !.rocketY = y,
                         !.groundVisible = ~Gt(fadeIn, Q(2, 100)),
                         !.earthVisible = Gt(fadeIn, Q(2, 100)),
                         !.starsVisible = Gt(fadeIn, Q(12, 100))],
              lerp(Q(45, 100), Q(8, 100), phaseProgress),
              [phase |-> "Ascending to Orbit", altitude |-> Mul(y, Num(5)),
               velocity |-> lerp(Q(18, 100), Q(9, 10), phaseProgress)],
              "rocket", ot)

AscendingToOrbit(p, sc, ot) ==
    LET phaseProgress == easeInOutQuint(Div(Sub(p, Q(35, 100)), Q(15, 100)))
        y == lerp(Num(groundLaunchY + 50), Num(launchpadY), phaseProgress)
        fadeOut == MathMax(Num(0), MathMin(Num(1),
                       Div(Sub(phaseProgress, Q(5, 10)), Q(35, 100))))
        fadeIn == MathMax(Num(0), MathMin(Num(1),
                       Div(Sub(phaseProgress, Q(5, 100)), Q(5, 10))))
    IN  Frame([sc EXCEPT !.rocketY = y,
                         !.groundVisible = Lt(fadeOut, Q(98, 100)),
                         !.earthVisible = Gt(fadeIn, Q(2, 100)),
                         !.starsVisible = Gt(fadeIn, Q(12, 100))],
              lerp(Q(45, 100), Q(8, 100), phaseProgress),
              [phase |-> "Ascending to Orbit", altitude |-> Mul(y, Num(5)),
               velocity |-> lerp(Q(18, 100), Q(9, 10), phaseProgress)],
              "rocket", ot)

OrbitalApproach(p, sc, ot) ==
    Frame(SpaceView(sc, Num(launchpadY)), Num(0),
          [phase |-> "Orbital Approach", altitude |-> Num(0), velocity |-> Num(0)],
          "rocket", ot)

LaunchPreparation(p, sc, ot) ==
    Frame(SpaceView(sc, Num(launchpadY)),
          lerp(Num(0), Q(1, 10), Div(Sub(p, Q(53, 100)), Q(5, 100))),
          [phase |-> "Launch Preparation", altitude |-> Num(0), velocity |-> Num(0)],
          "rocket", ot)

OrbitalLiftoff(p, sc, ot) ==
    LET phaseProgress == easeInOutCubic(Div(Sub(p, Q(58, 100)), Q(14, 100)))
        y == lerp(Num(launchpadY), Num(launchpadY + 250), phaseProgress)
    IN  Frame(SpaceView(sc, y),
              MathMin(Num(1), Mul(phaseProgress, Num(5))),
              [phase |-> "Orbital Liftoff & Ascent",
               altitude |-> Mul(Sub(y, Num(earthRadius)), Num(5)),
               velocity |-> lerp(Num(0), Q(75, 10), phaseProgress)],
              "rocket", ot)

\* The peeling boosters with the left booster's end point pasted into the
\* right one: both drift to negative x.
BoostersPeelingSameSide(bs, sepProg) ==
    << [bs[1] EXCEPT !.x = lerp(Q(-35, 10), Sub(Num(-20), Mul(sepProg, Num(30))), sepProg),
                     !.y = lerp(Num(0), Num(-10), sepProg),
                     !.rz = lerp(Num(0), Q(-3, 10), sepProg)],
       [bs[2] EXCEPT !.x = lerp(Q(35, 10), Sub(Num(-20), Mul(sepProg, Num(30))), sepProg),
                     !.y = lerp(Num(0), Num(-10), sepProg),
                     !.rz = lerp(Num(0), Q(3, 10), sepProg)] >>

\* The boosters while phaseProgress > stageSep: x, y and the roll are
\* written, z is left as it was.
BoostersPeeling(bs, sepProg) ==
    << [bs[1] EXCEPT !.x = lerp(Q(-35, 10), Sub(Num(-20), Mul(sepProg, Num(30))), sepProg),
                     !.y = lerp(Num(0), Num(-10), sepProg),
                     !.rz = lerp(Num(0), Q(-3, 10), sepProg)],
       [bs[2] EXCEPT !.x = lerp(Q(35, 10), Add(Num(20), Mul(sepProg, Num(30))), sepProg),
                     !.y = lerp(Num(0), Num(-10), sepProg),
                     !.rz = lerp(Num(0), Q(3, 10), sepProg)] >>

BoostersAttached ==
    << [x |-> Q(-35, 10), y |-> Num(0), z |-> Num(-2), rz |-> Num(0)],
       [x |-> Q(35, 10),  y |-> Num(0), z |-> Num(-2), rz |-> Num(0)] >>

BoosterSeparation(p, sc, ot) ==
    LET phaseProgress == easeInOutCubic(Div(Sub(p, Q(72, 100)), Q(12, 100)))
        y == lerp(Num(launchpadY + 250), Num(launchpadY + 500), phaseProgress)
        separating == Gt(phaseProgress, stageSep)
        sepProg == Div(Sub(phaseProgress, stageSep), Sub(One, stageSep))
    IN  Frame([SpaceView(sc, y) EXCEPT
                   !.boosters = IF separating THEN BoostersPeeling(sc.boosters, sepProg)
                                ELSE BoostersAttached],
              IF separating THEN lerp(Num(1), Q(7, 10), sepProg) ELSE Num(1),
              [phase |-> IF separating THEN "Booster Separation" ELSE "Orbital Ascent",
               altitude |-> Mul(Sub(y, Num(earthRadius)), Num(5)),
               velocity |-> lerp(Q(75, 10), Num(9), phaseProgress)],
              "rocket", ot)

FairingSeparation(p, sc, ot) ==
    LET phaseProgress == easeInOutCubic(Div(Sub(p, Q(84, 100)), Q(10, 100)))
        y == lerp(Num(launchpadY + 500), Num(launchpadY + 600), phaseProgress)
        sv == SpaceView(sc, y)
        released ==
            IF ~sc.satVisible
            THEN [sv EXCEPT !.satVisible = TRUE,
                            !.satPosition = [kind |-> "xyz", x |-> Num(0),
                                             y |-> Add(y, Num(30)), z |-> Num(0)]]
            ELSE sv
    IN  Frame([released EXCEPT
                   !.fairingL = [x |-> lerp(Num(0), Num(-5), phaseProgress),
                                 rz |-> lerp(Num(0), Q(-2, 10), phaseProgress)],
                   !.fairingR = [x |-> lerp(Num(0), Num(5), phaseProgress),
                                 rz |-> lerp(Num(0), Q(2, 10), phaseProgress)]],
              Num(0),
              [phase |-> "Fairing Separation",
               altitude |-> Mul(Sub(y, Num(earthRadius)), Num(5)),
               velocity |-> lerp(Num(15), Q(276, 10), phaseProgress)],
              "satellite", ot)

\* The last branch with the satellite driven by the scroll progress: the
\* accumulator is left alone and the orbit angle is taken from phaseProgress.
OrbitalOperationsByProgress(p, deltaTime, sc, ot) ==
    LET phaseProgress == easeInOutCubic(Div(Sub(p, Q(94, 100)), Q(6, 100)))
        y == lerp(Num(launchpadY + 600), Num(launchpadY + 580), phaseProgress)
        orbitRadius == earthRadius + 75
        deploy == MathMin(Num(1), Mul(phaseProgress, Num(3)))
    IN  Frame([sc EXCEPT
                   !.rocketY = y,
                   !.satPosition = [kind |-> "orbit", radius |-> Num(orbitRadius),
                                    angle |-> phaseProgress],
                   !.satRotation = [kind |-> "orbit", angle |-> phaseProgress],
                   !.solarPanels = << lerp(Q(1, 2), Num(0), deploy),
                                      lerp(Q(-1, 2), Num(0), deploy) >>],
              Num(0),
              [phase |-> "Orbital Operations",
               altitude |-> Mul(Num(orbitRadius - earthRadius), Num(5)),
               velocity |-> Q(276, 10)],
              "satellite", ot)

\* The last branch: taken for p > 0.94 and for a p that compares false with
\* every bound (NaN).  The only branch that advances orbitTime; it writes no
\* visibility flag.
OrbitalOperations(p, deltaTime, sc, ot) ==
    LET phaseProgress == easeInOutCubic(Div(Sub(p, Q(94, 100)), Q(6, 100)))
        y == lerp(Num(launchpadY + 600), Num(launchpadY + 580), phaseProgress)
        orbitTime1 == Add(ot, Mul(deltaTime, Q(1, 2)))
        orbitRadius == earthRadius + 75
        deploy == MathMin(Num(1), Mul(phaseProgress, Num(3)))
    IN  Frame([sc EXCEPT
                   !.rocketY = y,
                   !.satPosition = [kind |-> "orbit", radius |-> Num(orbitRadius),
                                    angle |-> orbitTime1],
                   !.satRotation = [kind |-> "orbit", angle |-> orbitTime1],
                   !.solarPanels = << lerp(Q(1, 2), Num(0), deploy),
                                      lerp(Q(-1, 2), Num(0), deploy) >>],
              Num(0),
              [phase |-> "Orbital Operations",
               altitude |-> Mul(Num(orbitRadius - earthRadius), Num(5)),
               velocity |-> Q(276, 10)],
              "satellite", orbitTime1)

\* The argument branch k hands to its easing function (to lerp in branches 2
\* and 6, which have no easing): (p - start) / length as the code writes it.
\* Branch 1 has one only in the camera control, branch 5 has none.
LocalProgress(k, p) ==
    CASE k = 1 -> Div(p, Q(5, 100))
      [] k = 2 -> Div(Sub(p, Q(5, 100)), Q(5, 100))
      [] k = 3 -> Div(Sub(p, Q(10, 100)), Q(25, 100))
      [] k = 4 -> Div(Sub(p, Q(35, 100)), Q(15, 100))
      [] k = 6 -> Div(Sub(p, Q(53, 100)), Q(5, 100))
      [] k = 7 -> Div(Sub(p, Q(58, 100)), Q(14, 100))
      [] k = 8 -> Div(Sub(p, Q(72, 100)), Q(12, 100))
      [] k = 9 -> Div(Sub(p, Q(84, 100)), Q(10, 100))
      [] k = 10 -> Div(Sub(p, Q(94, 100)), Q(6, 100))

\* The chain with every test written p < bound: a progress on a boundary
\* falls to the phase that starts there.
PhaseIndexLowerInclusive(p) ==
    IF Lt(p, Q(5, 100)) THEN 1
    ELSE IF Lt(p, Q(10, 100)) THEN 2
    ELSE IF Lt(p, Q(35, 100)) THEN 3
    ELSE IF Lt(p, Q(50, 100)) THEN 4
    ELSE IF Lt(p, Q(53, 100)) THEN 5
    ELSE IF Lt(p, Q(58, 100)) THEN 6
    ELSE IF Lt(p, Q(72, 100)) THEN 7
    ELSE IF Lt(p, Q(84, 100)) THEN 8
    ELSE IF Lt(p, Q(94, 100)) THEN 9
    ELSE 10

\* The branch the if / else-if chain takes: the first bound with p <= bound.
PhaseIndex(p) ==
    IF Le(p, Q(5, 100)) THEN 1
    ELSE IF Le(p, Q(10, 100)) THEN 2
    ELSE IF Le(p, Q(35, 100)) THEN 3
    ELSE IF Le(p, Q(50, 100)) THEN 4
    ELSE IF Le(p, Q(53, 100)) THEN 5
    ELSE IF Le(p, Q(58, 100)) THEN 6
    ELSE IF Le(p, Q(72, 100)) THEN 7
    ELSE IF Le(p, Q(84, 100)) THEN 8
    ELSE IF Le(p, Q(94, 100)) THEN 9
    ELSE 10

\* Branch k of the chain, applied to progress p.
PhaseBranch(k, p, deltaTime, sc, ot) ==
    CASE k = 1 -> PreLaunch(p, sc, ot)
      [] k = 2 -> Ignition(p, sc, ot)
      [] k = 3 -> GroundLiftoff(p, sc, ot)
      [] k = 4 -> AscendingToOrbit(p, sc, ot)
      [] k = 5 -> OrbitalApproach(p, sc, ot)
      [] k = 6 -> LaunchPreparation(p, sc, ot)
      [] k = 7 -> OrbitalLiftoff(p, sc, ot)
      [] k = 8 -> BoosterSeparation(p, sc, ot)
      [] k = 9 -> FairingSeparation(p, sc, ot)
      [] OTHER -> OrbitalOperations(p, deltaTime, sc, ot)

AnimationPhases(p, deltaTime, sc, ot) ==
    PhaseBranch(PhaseIndex(p), p, deltaTime, sc, ot)

-----------------------------------------------------------------------------
(* Camera control *)

\* A point with number coordinates.  A point whose coordinates are not
\* rational (a sine or cosine of an angle, a point in the frame of the rotated
\* satellite) is a record of another kind that names what it is computed from.
XYZ(x, y, z) == [kind |-> "xyz", x |-> x, y |-> y, z |-> z]

\* Vector3.lerpVectors(v1, v2, alpha): v1 + (v2 - v1) * alpha
LerpVectors(v1, v2, alpha) ==
    XYZ(Add(v1.x, Mul(Sub(v2.x, v1.x), alpha)),
        Add(v1.y, Mul(Sub(v2.y, v1.y), alpha)),
        Add(v1.z, Mul(Sub(v2.z, v1.z), alpha)))

\* A shot: where the camera is to go and what it is to look at.
Shot(pos, lookAt) == [targetCamPos |-> pos, targetLookAt |-> lookAt]

\* rocketGroup.position and satelliteGroup.position
RocketPosition(sc) == XYZ(Num(0), sc.rocketY, Num(0))

SubjectPosition(sc, subject) ==
    IF subject = "rocket" THEN RocketPosition(sc) ELSE sc.satPosition

\* The scripted shots of the ground sequence, p <= 0.51, the same for every
\* camera angle.
GroundShot(p) ==
    IF Le(p, Q(5, 100))
    THEN Shot(LerpVectors(XYZ(Num(100), Num(20), Num(100)), XYZ(Num(85), Num(18), Num(85)),
                          easeInOutCubic(Div(p, Q(5, 100)))),
              XYZ(Num(0), Num(12), Num(0)))
    ELSE IF Le(p, Q(10, 100))
    THEN Shot(LerpVectors(XYZ(Num(85), Num(18), Num(85)), XYZ(Num(70), Num(20), Num(70)),
                          easeInOutCubic(Div(Sub(p, Q(5, 100)), Q(5, 100)))),
              XYZ(Num(0), Num(12), Num(0)))
    ELSE IF Le(p, Q(35, 100))
    THEN Shot(LerpVectors(XYZ(Num(70), Num(20), Num(70)), XYZ(Num(65), Num(38), Num(65)),
                          easeInOutCubic(Div(Sub(p, Q(10, 100)), Q(25, 100)))),
              XYZ(Num(0),
                  lerp(Num(12), Num(33), easeInOutCubic(Div(Sub(p, Q(10, 100)), Q(25, 100)))),
                  Num(0)))
    ELSE IF Le(p, Q(38, 100))
    THEN Shot(LerpVectors(XYZ(Num(65), Num(38), Num(65)), XYZ(Num(58), Num(60), Num(95)),
                          easeInOutQuint(Div(Sub(p, Q(35, 100)), Q(3, 100)))),
              LerpVectors(XYZ(Num(0), Num(33), Num(0)), XYZ(Num(0), Num(31), Num(0)),
                          easeInOutQuint(Div(Sub(p, Q(35, 100)), Q(3, 100)))))
    ELSE IF Le(p, Q(42, 100))
    THEN Shot(LerpVectors(XYZ(Num(58), Num(60), Num(95)), XYZ(Num(42), Num(90), Num(140)),
                          easeInOutQuint(Div(Sub(p, Q(38, 100)), Q(4, 100)))),
              LerpVectors(XYZ(Num(0), Num(31), Num(0)), XYZ(Num(0), Num(28), Num(0)),
                          easeInOutQuint(Div(Sub(p, Q(38, 100)), Q(4, 100)))))
    ELSE IF Le(p, Q(46, 100))
    THEN Shot(LerpVectors(XYZ(Num(42), Num(90), Num(140)), XYZ(Num(25), Num(115), Num(200)),
                          easeInOutQuint(Div(Sub(p, Q(42, 100)), Q(4, 100)))),
              LerpVectors(XYZ(Num(0), Num(28), Num(0)), XYZ(Num(0), Num(23), Num(0)),
                          easeInOutQuint(Div(Sub(p, Q(42, 100)), Q(4, 100)))))
    ELSE Shot(LerpVectors(XYZ(Num(25), Num(115), Num(200)),
                          XYZ(Num(0), Num(launchpadY + 25), Num(60)),
                          easeInOutQuint(Div(Sub(p, Q(46, 100)), Q(5, 100)))),
              LerpVectors(XYZ(Num(0), Num(23), Num(0)), XYZ(Num(0), Num(launchpadY + 20), Num(0)),
                          easeInOutQuint(Div(Sub(p, Q(46, 100)), Q(5, 100)))))

\* The 'cinematic' shots of the space sequence.  On the quarter arc of the
\* orbital liftoff and on the camera's orbit the target is kept by its angle
\* (in units of pi on the arc, in radians on the orbit).
CinematicShot(p, sc, ot) ==
    IF Le(p, Q(58, 100))
    THEN Shot(XYZ(Num(0), Num(launchpadY + 25), Num(60)),
              XYZ(Num(0), Num(launchpadY + 20), Num(0)))
    ELSE IF Le(p, Q(72, 100))
    THEN Shot([kind |-> "arc",
               angle |-> Mul(easeInOutCubic(Div(Sub(p, Q(58, 100)), Q(14, 100))), Q(1, 2)),
               y |-> Add(sc.rocketY, Num(15))],
              RocketPosition(sc))
    ELSE IF Le(p, Q(84, 100))
    THEN Shot(XYZ(Num(65), Add(sc.rocketY, Num(35)), Num(65)), RocketPosition(sc))
    ELSE IF Le(p, Q(94, 100))
    THEN Shot(IF sc.satPosition.kind = "xyz"
              THEN XYZ(Num(-20), Add(sc.satPosition.y, Num(10)), Num(40))
              ELSE [kind |-> "aboveSatellite", satellite |-> sc.satPosition],
              sc.satPosition)
    ELSE Shot([kind |-> "camOrbit", angle |-> Mul(ot, Q(3, 10)),
               radius |-> Num(180), elevation |-> Num(70)],
              XYZ(Num(0), Num(0), Num(0)))

\* The 'follow' shot: the offset (0, 20, -70) in the subject's frame, taken to
\* world space by the subject's world matrix.  worldY is the height in the
\* rocket's world matrix.
FollowShot(sc, subject, worldY) ==
    Shot(IF subject = "rocket"
         THEN XYZ(Num(0), Add(worldY, Num(20)), Num(-70))
         ELSE [kind |-> "behindSatellite", satellite |-> sc.satPosition,
               rotation |-> sc.satRotation],
         SubjectPosition(sc, subject))

\* The 'wide' shot: the subject's position plus (180, 180, 180).
WideShot(sc, subject) ==
    Shot(IF SubjectPosition(sc, subject).kind = "xyz"
         THEN XYZ(Add(SubjectPosition(sc, subject).x, Num(180)),
                  Add(SubjectPosition(sc, subject).y, Num(180)),
                  Add(SubjectPosition(sc, subject).z, Num(180)))
         ELSE [kind |-> "wideOfSatellite", satellite |-> sc.satPosition],
         SubjectPosition(sc, subject))

\* A camera control that consults the camera angle at every progress.
CameraControlByAngle(p, angle, sc, subject, ot, worldY) ==
    IF angle = "cinematic"
    THEN (IF Le(p, Q(51, 100)) THEN GroundShot(p) ELSE CinematicShot(p, sc, ot))
    ELSE IF angle = "follow" THEN FollowShot(sc, subject, worldY)
    ELSE WideShot(sc, subject)

\* targetCamPos and targetLookAt of the frame.
CameraControl(p, angle, sc, subject, ot, worldY) ==
    IF Le(p, Q(51, 100)) THEN GroundShot(p)
    ELSE IF angle = "cinematic" THEN CinematicShot(p, sc, ot)
    ELSE IF angle = "follow" THEN FollowShot(sc, subject, worldY)
    ELSE WideShot(sc, subject)

\* A factor of 1: the camera is set to its target.
LerpFactorSnap(p) == One

\* The smaller factor in the ground-to-space transition only.
LerpFactorTransitionOnly(p) ==
    IF Gt(p, Q(35, 100)) /\ Le(p, Q(50, 100)) THEN Q(12, 1000) ELSE Q(4, 100)

\* lerpFactor
LerpFactor(p) == IF Le(p, Q(51, 100)) THEN Q(12, 1000) ELSE Q(4, 100)

\* A lerp that adds the scaled target instead of the scaled difference.
Vector3LerpOfTarget(pos, v, alpha) ==
    XYZ(Add(pos.x, Mul(v.x, alpha)),
        Add(pos.y, Mul(v.y, alpha)),
        Add(pos.z, Mul(v.z, alpha)))

\* Vector3.lerp(v, alpha) on a position pos: pos + (v - pos) * alpha
Vector3Lerp(pos, v, alpha) ==
    XYZ(Add(pos.x, Mul(Sub(v.x, pos.x), alpha)),
        Add(pos.y, Mul(Sub(v.y, pos.y), alpha)),
        Add(pos.z, Mul(Sub(v.z, pos.z), alpha)))

\* camera.position.set(0, 100, 300)
InitCameraPosition == XYZ(Num(0), Num(100), Num(300))

\* The camera position is kept as the smoothing steps made so far, each with
\* the target and the factor of its frame; CameraPosition is the position
\* after the first n of them, a point with number coordinates as long as
\* every target was one.
RECURSIVE CameraPosition(_, _)
CameraPosition(steps, n) ==
    IF n = 0 THEN InitCameraPosition
    ELSE Vector3Lerp(CameraPosition(steps, n - 1), steps[n].targetCamPos, steps[n].lerpFactor)

-----------------------------------------------------------------------------
(* The exhaust particle pool *)

\* Number of particle slots.  The component allocates 5001; the model keeps
\* the pool small.
PARTICLE_COUNT == 1

Vec3(x, y, z) == <<x, y, z>>

\* vector + velocity * s  (Vector3.addScaledVector)
AddScaledVector(v, w, s) ==
    Vec3(Add(v[1], Mul(w[1], s)), Add(v[2], Mul(w[2], s)), Add(v[3], Mul(w[3], s)))

\* 0xadd8ff, 0xffa500 and 0xb22222 as r, g, b in [0, 1]
colorHot == Vec3(Q(173, 255), Q(216, 255), Q(255, 255))

colorWarm == Vec3(Q(255, 255), Q(165, 255), Q(0, 255))

colorCool == Vec3(Q(178, 255), Q(34, 255), Q(34, 255))

\* Color.lerp: each channel moves by alpha of its distance to the other colour.
ColorLerp(c1, c2, alpha) ==
    [k \in 1..3 |-> Add(c1[k], Mul(Sub(c2[k], c1[k]), alpha))]

DeadParticle ==
    [ position |-> Vec3(Num(0), Num(0), Num(0)),
      velocity |-> Vec3(Num(0), Num(0), Num(0)),
      age |-> Num(999), lifetime |-> Num(0), size |-> Num(0) ]

HiddenY == Num(-999)

InitParticles == [i \in 1..PARTICLE_COUNT |-> DeadParticle]

InitPositions == [k \in 1..(3 * PARTICLE_COUNT) |-> IF k % 3 = 2 THEN HiddenY ELSE Num(0)]

InitColors == [k \in 1..(3 * PARTICLE_COUNT) |-> Num(0)]

InitSizes == [i \in 1..PARTICLE_COUNT |-> Num(0)]

InitAlphas == [i \in 1..PARTICLE_COUNT |-> Num(0)]

\* Math.random() < intensity, for the draw r
RespawnRoll(r, intensity) == Lt(r, intensity)

\* p.age > p.lifetime
Expired(pt) == Gt(pt.age, pt.lifetime)

\* A respawn whose lifetime is drawn from [0, 1.5] instead of [0.8, 1.5].
RespawnedShortLived(pt, r) ==
    [pt EXCEPT
       !.age = Num(0),
       !.lifetime = lerp(Num(0), Q(15, 10), r[2]),
       !.position = Vec3(Mul(Sub(r[3], Q(1, 2)), Q(15, 10)), Num(0),
                         Mul(Sub(r[4], Q(1, 2)), Q(15, 10))),
       !.velocity = Vec3(Mul(Sub(r[5], Q(1, 2)), Num(8)),
                         lerp(Num(-50), Num(-80), r[6]),
                         Mul(Sub(r[7], Q(1, 2)), Num(8)))]

\* The respawn branch: the six draws r[2..7] in the order the code makes them.
Respawned(pt, r) ==
    [pt EXCEPT
       !.age = Num(0),
       !.lifetime = lerp(Q(8, 10), Q(15, 10), r[2]),
       !.position = Vec3(Mul(Sub(r[3], Q(1, 2)), Q(15, 10)), Num(0),
                         Mul(Sub(r[4], Q(1, 2)), Q(15, 10))),
       !.velocity = Vec3(Mul(Sub(r[5], Q(1, 2)), Num(8)),
                         lerp(Num(-50), Num(-80), r[6]),
                         Mul(Sub(r[7], Q(1, 2)), Num(8)))]

\* Integration of a live particle: the position advances, velocity.y is damped.
Integrated(pt, deltaTime) ==
    [pt EXCEPT
       !.position = AddScaledVector(pt.position, pt.velocity, deltaTime),
       !.velocity = Vec3(pt.velocity[1], Mul(pt.velocity[2], Q(99, 100)), pt.velocity[3])]

AgeRatio(pt) == Div(pt.age, pt.lifetime)

ParticleSize(ageRatio, intensity) == Mul(lerp(Num(5), Num(20), ageRatio), intensity)

ParticleColor(ageRatio) ==
    IF Lt(ageRatio, Q(3, 10))
    THEN ColorLerp(colorHot, colorWarm, Div(ageRatio, Q(3, 10)))
    ELSE ColorLerp(colorWarm, colorCool, Div(Sub(ageRatio, Q(3, 10)), Q(7, 10)))

ParticleAlpha(ageRatio, intensity) == Mul(Sub(One, Mul(ageRatio, ageRatio)), intensity)

\* The loop body without the write of the sentinel: an expired particle that
\* is not respawned keeps its last buffer entry.
UpdateParticleLeftDrawn(pt, pos3, col3, size, alpha, deltaTime, intensity, r) ==
    LET aged == [pt EXCEPT !.age = Add(pt.age, deltaTime)]
    IN  IF Expired(aged) /\ ~RespawnRoll(r[1], intensity)
        THEN [ particle |-> aged, pos3 |-> pos3,
               col3 |-> col3, size |-> size, alpha |-> alpha ]
        ELSE LET live == IF Expired(aged) THEN Respawned(aged, r) ELSE aged
                 moved == Integrated(live, deltaTime)
                 ageRatio == AgeRatio(moved)
             IN  [ particle |-> moved,
                   pos3 |-> moved.position,
                   col3 |-> ParticleColor(ageRatio),
                   size |-> ParticleSize(ageRatio, intensity),
                   alpha |-> ParticleAlpha(ageRatio, intensity) ]

\* A hide branch that also clears the size and alpha entries of the slot.
UpdateParticleCleared(pt, pos3, col3, size, alpha, deltaTime, intensity, r) ==
    LET aged == [pt EXCEPT !.age = Add(pt.age, deltaTime)]
    IN  IF Expired(aged) /\ ~RespawnRoll(r[1], intensity)
        THEN [ particle |-> aged,
               pos3 |-> Vec3(pos3[1], HiddenY, pos3[3]),
               col3 |-> col3, size |-> Num(0), alpha |-> Num(0) ]
        ELSE LET live == IF Expired(aged) THEN Respawned(aged, r) ELSE aged
                 moved == Integrated(live, deltaTime)
                 ageRatio == AgeRatio(moved)
             IN  [ particle |-> moved,
                   pos3 |-> moved.position,
                   col3 |-> ParticleColor(ageRatio),
                   size |-> ParticleSize(ageRatio, intensity),
                   alpha |-> ParticleAlpha(ageRatio, intensity) ]

\* One iteration of the loop body for slot i: the particle and its buffer
\* entries afterwards.  r is the sequence of Math.random() results the
\* iteration would consume.
UpdateParticle(pt, pos3, col3, size, alpha, deltaTime, intensity, r) ==
    LET aged == [pt EXCEPT !.age = Add(pt.age, deltaTime)]
    IN  IF Expired(aged) /\ ~RespawnRoll(r[1], intensity)
        THEN [ particle |-> aged,
               pos3 |-> Vec3(pos3[1], HiddenY, pos3[3]),
               col3 |-> col3, size |-> size, alpha |-> alpha ]
        ELSE LET live == IF Expired(aged) THEN Respawned(aged, r) ELSE aged
                 moved == Integrated(live, deltaTime)
                 ageRatio == AgeRatio(moved)
             IN  [ particle |-> moved,
                   pos3 |-> moved.position,
                   col3 |-> ParticleColor(ageRatio),
                   size |-> ParticleSize(ageRatio, intensity),
                   alpha |-> ParticleAlpha(ageRatio, intensity) ]

\* An update that allocates: every call pushes one more particle and grows
\* the size buffer with it.
UpdateExhaustAppending(pool, deltaTime, intensity, rnd) ==
    [pool EXCEPT !.particles = Append(@, DeadParticle), !.sizes = Append(@, Num(0))]

\* updateExhaust(deltaTime, intensity) over the whole pool; rnd[i] are the
\* draws of iteration i.
UpdateExhaust(pool, deltaTime, intensity, rnd) ==
    LET out == [i \in 1..PARTICLE_COUNT |->
                  UpdateParticle(pool.particles[i],
                                 Vec3(pool.positions[3 * i - 2], pool.positions[3 * i - 1],
                                      pool.positions[3 * i]),
                                 Vec3(pool.colors[3 * i - 2], pool.colors[3 * i - 1],
                                      pool.colors[3 * i]),
                                 pool.sizes[i], pool.alphas[i],
                                 deltaTime, intensity, rnd[i])]
    IN  [ particles |-> [i \in 1..PARTICLE_COUNT |-> out[i].particle],
          positions |-> [k \in 1..Len(pool.positions) |->
                            out[(k + 2) \div 3].pos3[((k - 1) % 3) + 1]],
          colors    |-> [k \in 1..Len(pool.colors) |->
                            out[(k + 2) \div 3].col3[((k - 1) % 3) + 1]],
          sizes     |-> [i \in 1..Len(pool.sizes) |-> out[i].size],
          alphas    |-> [i \in 1..Len(pool.alphas) |-> out[i].alpha] ]

-----------------------------------------------------------------------------
(* State *)

VARIABLES
    scrollState,       \* scrollState.percent
    orbitTime,         \* the orbit accumulator
    lastUIUpdate,      \* timestamp of the last telemetry emission (ms)
    scene,             \* the pose and visibility fields of the scene graph
    pool,              \* particles and the four attribute buffers
    isMounted,         \* the effect's isMounted flag
    loaded,            \* the loading manager has fired its completion callback
    loading,           \* the App's loading flag (setLoading)
    animationFrame,    \* "none" or "requested": a pending requestAnimationFrame
    ui,                \* what the telemetry sink last received
    time,              \* timestamp of the last frame (ms)
    ticks,             \* frames run so far
    progress,          \* the last frame's local p
    deltaTime,         \* the last frame's local deltaTime
    exhaustIntensity,  \* the last frame's local exhaustIntensity
    missionData,       \* the last frame's local missionData
    prevPhase,         \* missionData.phase of the frame before the last one
    idleTime,          \* seconds of frames since exhaustIntensity was last non-zero
    cameraAngleRef,    \* cameraAngleRef.current
    camera,            \* the smoothing steps camera.position has made
    matrixWorld,       \* the rocket height in rocketGroup.matrixWorld
    resources,         \* window listeners, the canvas in the DOM, the renderer
    assetFailed,       \* a texture request has ended in an error
    autoScroll,        \* the App's autoScroll flag
    velocity,          \* the auto-scroll effect's velocity (pixels per frame)
    animationId,       \* "none" or "requested": a pending autoScrollStep
    windowScrollY      \* window.scrollY (pixels)

vars == << scrollState, orbitTime, lastUIUpdate, scene, pool, isMounted, loaded,
           loading, animationFrame, ui, time, ticks, progress, deltaTime,
           exhaustIntensity, missionData, prevPhase, idleTime, cameraAngleRef,
           camera, matrixWorld, resources, assetFailed, autoScroll, velocity,
           animationId, windowScrollY >>

\* The state of the App's auto-scroll.
app == << autoScroll, velocity, animationId, windowScrollY >>

-----------------------------------------------------------------------------
(* Inputs *)

\* Frames a behaviour may run.
MaxTicks == 3

\* Milliseconds between two frames (clock.getDelta() is this over 1000).
FrameGaps == {0, 1000}

\* The results of the seven Math.random() calls one loop iteration can make:
\* the respawn roll, the lifetime, position x and z, velocity x, y and z.
RandomSeqs ==
    { << Q(0, 1),  Q(0, 1), Q(1, 2), Q(1, 2), Q(1, 2), Q(0, 1), Q(1, 2) >>,
      << Q(1, 2),  Q(4, 7), Q(0, 1), Q(9, 10), Q(3, 4), Q(1, 2), Q(1, 4) >> }

\* The draws of a whole updateExhaust call: slot 1 consumes s, every other
\* slot the other sequence.
Draws(s) ==
    [i \in 1..PARTICLE_COUNT |-> IF i = 1 THEN s ELSE CHOOSE o \in RandomSeqs : o # s]

\* window.scrollY and scrollHeight - innerHeight when a scroll event arrives.
ScrollEvents == { <<y, 100>> : y \in {0, 80, 90, 100} }

\* The same pair when the component mounts at a restored scroll position,
\* with overscroll on either side and a page without scrollable height.
RestoredScrolls == { <<y, 100>> : y \in -2..102 } \cup { <<y, 0>> : y \in {-1, 0, 1} }

\* (window.scrollY / (scrollHeight - innerHeight)) * 100
ScrollPercent(scrollY, maxScroll) == Mul(Div(Num(scrollY), Num(maxScroll)), Num(100))

\* The values of the cameraAngle prop.
CameraAngles == {"cinematic", "follow", "wide"}

-----------------------------------------------------------------------------
(* Actions *)

\* What the effect subscribes to and attaches while it builds the scene.
Acquired ==
    [ listeners |-> {"scroll", "resize", "mousemove", "click"},
      domElement |-> TRUE, renderer |-> "live" ]

\* The state after the effect has run: scene built, listeners attached,
\* handleScroll() called once, textures still loading.
Mounted(scrollY, maxScroll) ==
    /\ scrollState = [percent |-> ScrollPercent(scrollY, maxScroll)]
    /\ orbitTime = Num(0)
    /\ lastUIUpdate = 0
    /\ scene = InitScene
    /\ pool = [ particles |-> InitParticles, positions |-> InitPositions,
                colors |-> InitColors, sizes |-> InitSizes, alphas |-> InitAlphas ]
    /\ isMounted = TRUE
    /\ loaded = FALSE
    /\ loading = TRUE
    /\ animationFrame = "none"
    /\ ui = [scrollPercent |-> Num(0),
             missionData |-> [phase |-> "Orbital Approach", altitude |-> Num(0),
                              velocity |-> Num(0)]]
    /\ time = 0
    /\ ticks = 0
    /\ progress = Num(0)
    /\ deltaTime = Num(0)
    /\ exhaustIntensity = Num(0)
    /\ missionData = NoMission
    /\ prevPhase = ""
    /\ idleTime = Num(0)
    /\ cameraAngleRef = "cinematic"
    /\ camera = << >>
    /\ matrixWorld = Num(0)
    /\ resources = Acquired
    /\ assetFailed = FALSE
    /\ autoScroll = FALSE
    /\ velocity = Num(0)
    /\ animationId = "none"
    /\ windowScrollY = Num(0)

Init == Mounted(0, 100)

\* The scroll listener.
HandleScroll(events) ==
    /\ isMounted
    /\ \E e \in events : scrollState' = [percent |-> ScrollPercent(e[1], e[2])]
    /\ UNCHANGED << app, orbitTime, lastUIUpdate, scene, pool, isMounted, loaded, loading,
                    animationFrame, ui, time, ticks, progress, deltaTime,
                    exhaustIntensity, missionData, prevPhase, idleTime, cameraAngleRef,
                    camera, matrixWorld, resources, assetFailed >>

\* The cameraAngle prop changes and its effect stores it in the ref.
SetCameraAngle ==
    /\ isMounted
    /\ \E a \in CameraAngles \ {cameraAngleRef} : cameraAngleRef' = a
    /\ UNCHANGED << app, scrollState, orbitTime, lastUIUpdate, scene, pool, isMounted, loaded,
                    loading, animationFrame, ui, time, ticks, progress, deltaTime,
                    exhaustIntensity, missionData, prevPhase, idleTime, camera,
                    matrixWorld, resources, assetFailed >>

\* One of the texture requests ends in an error.  No error callback is
\* registered; the loading manager counts the request as ended.
LoadError ==
    /\ ~loaded
    /\ ~assetFailed
    /\ assetFailed' = TRUE
    /\ UNCHANGED << app, scrollState, orbitTime, lastUIUpdate, scene, pool, isMounted, loaded,
                    loading, animationFrame, ui, time, ticks, progress, deltaTime,
                    exhaustIntensity, missionData, prevPhase, idleTime, cameraAngleRef,
                    camera, matrixWorld, resources >>

\* A completion callback that starts the loop and leaves the loading flag set.
LoadCompleteStillLoading ==
    /\ ~loaded
    /\ loaded' = TRUE
    /\ animationFrame' = IF isMounted THEN "requested" ELSE animationFrame
    /\ UNCHANGED << app, scrollState, orbitTime, lastUIUpdate, scene, pool, isMounted, loading,
                    ui, time, ticks, progress, deltaTime, exhaustIntensity, missionData,
                    prevPhase, idleTime, cameraAngleRef, camera, matrixWorld, resources,
                    assetFailed >>

\* The completion callback without its isMounted test.
LoadCompleteUnguarded ==
    /\ ~loaded
    /\ loaded' = TRUE
    /\ loading' = FALSE
    /\ animationFrame' = "requested"
    /\ UNCHANGED << app, scrollState, orbitTime, lastUIUpdate, scene, pool, isMounted, ui,
                    time, ticks, progress, deltaTime, exhaustIntensity, missionData,
                    prevPhase, idleTime, cameraAngleRef, camera, matrixWorld, resources,
                    assetFailed >>

\* The loading manager's completion callback.
LoadComplete ==
    /\ ~loaded
    /\ loaded' = TRUE
    /\ loading' = FALSE
    /\ animationFrame' = IF isMounted THEN "requested" ELSE animationFrame
    /\ UNCHANGED << app, scrollState, orbitTime, lastUIUpdate, scene, pool, isMounted, ui,
                    time, ticks, progress, deltaTime, exhaustIntensity, missionData,
                    prevPhase, idleTime, cameraAngleRef, camera, matrixWorld, resources,
                    assetFailed >>

\* A throttle that lets a frame exactly 16 ms after the last emission through.
TelemetryDueInclusive(t, last) == t - last >= 16

\* time - lastUIUpdate > 16
TelemetryDue(t, last) == t - last > 16

\* The heights the rocket's world matrix can hold when the 'follow' shot
\* reads it: the one of the last render, or the one just set if the library
\* refreshes the matrix inside localToWorld.
WorldHeights(p, angle, f) ==
    IF ~Le(p, Q(51, 100)) /\ angle = "follow" /\ f.primarySubject = "rocket"
    THEN {matrixWorld, f.scene.rocketY}
    ELSE {matrixWorld}

\* One animation frame, animate(time), gap milliseconds after the last one.
AnimateAt(gaps) ==
    /\ animationFrame = "requested"
    /\ ticks < MaxTicks
    /\ \E gap \in gaps, s \in RandomSeqs :
         IF ~isMounted
         THEN /\ animationFrame' = "none"
              /\ UNCHANGED << app, scrollState, orbitTime, lastUIUpdate, scene, pool,
                              isMounted, loaded, loading, ui, time, ticks, progress,
                              deltaTime, exhaustIntensity, missionData, prevPhase,
                              idleTime, cameraAngleRef, camera, matrixWorld, resources,
                              assetFailed >>
         ELSE \E f \in {AnimationPhases(Div(scrollState.percent, Num(100)), Q(gap, 1000),
                                        scene, orbitTime)} :
                  /\ scene' = f.scene
                  /\ orbitTime' = f.orbitTime
                  /\ pool' = UpdateExhaust(pool, Q(gap, 1000), f.exhaustIntensity, Draws(s))
                  /\ \E worldY \in WorldHeights(Div(scrollState.percent, Num(100)),
                                                cameraAngleRef, f) :
                       \E shot \in {CameraControl(Div(scrollState.percent, Num(100)),
                                                  cameraAngleRef, f.scene, f.primarySubject,
                                                  f.orbitTime, worldY)} :
                           camera' = Append(camera,
                               [ targetCamPos |-> shot.targetCamPos,
                                 targetLookAt |-> shot.targetLookAt,
                                 lerpFactor |-> LerpFactor(Div(scrollState.percent, Num(100))),
                                 cameraAngle |-> cameraAngleRef ])
                  /\ matrixWorld' = f.scene.rocketY
                  /\ IF TelemetryDue(time + gap, lastUIUpdate)
                     THEN /\ ui' = [scrollPercent |-> scrollState.percent,
                                    missionData |-> f.missionData]
                          /\ lastUIUpdate' = time + gap
                     ELSE UNCHANGED << ui, lastUIUpdate >>
                  /\ animationFrame' = "requested"
                  /\ time' = time + gap
                  /\ ticks' = ticks + 1
                  /\ progress' = Div(scrollState.percent, Num(100))
                  /\ deltaTime' = Q(gap, 1000)
                  /\ exhaustIntensity' = f.exhaustIntensity
                  /\ missionData' = f.missionData
                  /\ prevPhase' = missionData.phase
                  /\ idleTime' = IF f.exhaustIntensity = Num(0)
                                 THEN Add(idleTime, Q(gap, 1000)) ELSE Num(0)
                  /\ UNCHANGED << app, scrollState, isMounted, loaded, loading, cameraAngleRef,
                                  resources, assetFailed >>

Animate == AnimateAt(FrameGaps)

\* A cleanup that leaves the click listener subscribed.
UnmountKeepingClick ==
    /\ isMounted
    /\ isMounted' = FALSE
    /\ animationFrame' = "none"
    /\ resources' = [listeners |-> {"click"}, domElement |-> FALSE, renderer |-> "disposed"]
    /\ UNCHANGED << app, scrollState, orbitTime, lastUIUpdate, scene, pool, loaded, loading,
                    ui, time, ticks, progress, deltaTime, exhaustIntensity, missionData,
                    prevPhase, idleTime, cameraAngleRef, camera, matrixWorld, assetFailed >>

\* The effect's cleanup.
Unmount ==
    /\ isMounted
    /\ isMounted' = FALSE
    /\ animationFrame' = "none"
    /\ resources' = [listeners |-> {}, domElement |-> FALSE, renderer |-> "disposed"]
    /\ UNCHANGED << app, scrollState, orbitTime, lastUIUpdate, scene, pool, loaded, loading,
                    ui, time, ticks, progress, deltaTime, exhaustIntensity, missionData,
                    prevPhase, idleTime, cameraAngleRef, camera, matrixWorld, assetFailed >>

Next ==
    \/ HandleScroll(ScrollEvents)
    \/ LoadComplete
    \/ Animate
    \/ Unmount

Spec == Init /\ [][Next]_vars

\* The first frame after mounting at any restored scroll position.
RestoredInit == \E e \in RestoredScrolls : Mounted(e[1], e[2])

FirstFrame == ticks = 0 /\ Animate

RestoredNext ==
    \/ LoadComplete
    \/ FirstFrame

RestoredSpec == RestoredInit /\ [][RestoredNext]_vars

\* Frames a camera behaviour may run.
MaxCameraFrames == 2

\* Scroll positions of the camera behaviours: on the pad, at the end of the
\* scripted ground sequence, in booster separation.
CameraScrolls == { <<y, 100>> : y \in {0, 51, 78} }

\* Frames 16 ms apart.
CameraFrame == Len(camera) < MaxCameraFrames /\ AnimateAt({16})

CameraNext ==
    \/ HandleScroll(CameraScrolls)
    \/ SetCameraAngle
    \/ LoadComplete
    \/ CameraFrame

\* The camera under scrolling and camera-angle changes between frames.
CameraSpec == Init /\ [][CameraNext]_vars

\* Frame gaps around the telemetry period: two or more frames inside one
\* period, a frame exactly on it, a frame just past it.
TelemetryGaps == {8, 16, 17}

\* Scroll positions of the telemetry behaviours: the top and the bottom.
TelemetryScrolls == { <<y, 100>> : y \in {0, 100} }

TelemetryFrame == AnimateAt(TelemetryGaps)

TelemetryNext ==
    \/ HandleScroll(TelemetryScrolls)
    \/ LoadComplete
    \/ TelemetryFrame

\* Frames at intervals around the telemetry period.
TelemetrySpec == Init /\ [][TelemetryNext]_vars

\* Scroll positions of the startup behaviours: the top and booster separation.
StartupScrolls == { <<y, 100>> : y \in {0, 80} }

StartupNext ==
    \/ LoadError
    \/ LoadComplete
    \/ HandleScroll(StartupScrolls)
    \/ Animate
    \/ Unmount

\* Startup with a texture request that may fail.
StartupSpec == Init /\ [][StartupNext]_vars

-----------------------------------------------------------------------------
(* The App's auto-scroll *)

\* document.documentElement.scrollHeight - window.innerHeight, in pixels.
MaxScrollPx == 3

\* Where the user leaves the page before switching auto-scroll on.
UserScrolls == {Num(0), Q(5, 2)}

scrollSpeed == Q(15, 10)

acceleration == Q(3, 100)

deceleration == Q(98, 100)

\* window.scrollBy(0, dy) from y: the offset is clamped to the scroll range.
ScrollBy(y, dy, maxScroll) == MathMax(Zero, MathMin(Add(y, dy), maxScroll))

\* The scene's variables, which the App's auto-scroll does not write.
sceneVars == << scrollState, orbitTime, lastUIUpdate, scene, pool, isMounted, loaded,
                loading, animationFrame, ui, time, ticks, progress, deltaTime,
                exhaustIntensity, missionData, prevPhase, idleTime, cameraAngleRef,
                camera, matrixWorld, resources, assetFailed >>

\* The user scrolls the page while auto-scroll is off.
UserScroll ==
    /\ ~autoScroll
    /\ \E y \in UserScrolls \ {windowScrollY} : windowScrollY' = y
    /\ UNCHANGED << sceneVars, autoScroll, velocity, animationId >>

\* toggleAutoScroll and the effect it triggers: switched on, the effect
\* starts with velocity 0 and requests the first step; switched off, the
\* effect's cleanup cancels the pending step.
ToggleAutoScroll ==
    /\ autoScroll' = ~autoScroll
    /\ velocity' = Num(0)
    /\ animationId' = IF autoScroll THEN "none" ELSE "requested"
    /\ UNCHANGED << sceneVars, windowScrollY >>

\* A step that scrolls on and requests the next step at the end of the page.
AutoScrollStepEndless ==
    /\ animationId = "requested"
    /\ \E v \in {MathMin(Add(velocity, acceleration), scrollSpeed)} :
          /\ velocity' = v
          /\ windowScrollY' = ScrollBy(windowScrollY, Mul(v, deceleration), Num(MaxScrollPx))
    /\ UNCHANGED << sceneVars, autoScroll, animationId >>

\* autoScrollStep, the animation-frame callback of the effect.
AutoScrollStep ==
    /\ animationId = "requested"
    /\ IF Lt(windowScrollY, Num(MaxScrollPx))
       THEN \E v \in {MathMin(Add(velocity, acceleration), scrollSpeed)} :
                /\ velocity' = v
                /\ windowScrollY' = ScrollBy(windowScrollY, Mul(v, deceleration),
                                             Num(MaxScrollPx))
                /\ UNCHANGED << autoScroll, animationId >>
       ELSE /\ autoScroll' = FALSE
            /\ velocity' = Num(0)
            /\ animationId' = "none"
            /\ UNCHANGED windowScrollY
    /\ UNCHANGED sceneVars

AutoNext ==
    \/ UserScroll
    \/ ToggleAutoScroll
    \/ AutoScrollStep

\* Auto-scroll with the browser running every requested step: weak fairness
\* of AutoScrollStep, WF_app(AutoScrollStep), with ENABLED written out as the
\* step's guard (a step always changes app).
AutoSpec ==
    /\ Init
    /\ [][AutoNext]_vars
    /\ ([]<>(animationId # "requested") \/ []<><<AutoScrollStep>>_app)

-----------------------------------------------------------------------------
(* The overlay's countdown *)

\* Math.floor of a finite number.
MathFloor(a) == a[1] \div a[2]

\* n.toString().padStart(2, '0') for 0 <= n <= 99
PadStart2(n) ==
    LET digit == << "0", "1", "2", "3", "4", "5", "6", "7", "8", "9" >>
    IN  digit[(n \div 10) + 1] \o digit[(n % 10) + 1]

\* countdown, for 10 <= scrollPercent < 25
Countdown(scrollPercent) ==
    10 - MathFloor(Mul(Div(Sub(scrollPercent, Num(10)), Num(15)), Num(10)))

\* getCountdown() for the scrollPercent prop
getCountdown(scrollPercent) ==
    IF Lt(scrollPercent, Num(10)) THEN "T-00:00:10"
    ELSE IF Lt(scrollPercent, Num(25)) THEN "T-00:00:" \o PadStart2(Countdown(scrollPercent))
    ELSE "LIFTOFF"

-----------------------------------------------------------------------------
(* Properties *)

InUnit(a) == Ge(a, Zero) /\ Le(a, One)

\* The upper bounds of the ten phases, in percent, and the names each phase
\* reports.
PhaseEnd == << 5, 10, 35, 50, 53, 58, 72, 84, 94, 100 >>

PhaseNames ==
    << {"Pre-Launch Countdown"}, {"Ignition Sequence"}, {"Ground Liftoff"},
       {"Ascending to Orbit"}, {"Orbital Approach"}, {"Launch Preparation"},
       {"Orbital Liftoff & Ascent"}, {"Orbital Ascent", "Booster Separation"},
       {"Fairing Separation"}, {"Orbital Operations"} >>

Phases == 1..Len(PhaseEnd)

\* p lies in phase k when a boundary belongs to the phase that ends there ...
UpperInclusive(k, p) ==
    /\ k = 1 \/ Gt(p, Q(PhaseEnd[k - 1], 100))
    /\ Le(p, Q(PhaseEnd[k], 100))

\* ... and when it belongs to the phase that starts there.
LowerInclusive(k, p) ==
    /\ k = 1 \/ Ge(p, Q(PhaseEnd[k - 1], 100))
    /\ k = Len(PhaseEnd) \/ Lt(p, Q(PhaseEnd[k], 100))

\* The frame reported a name of exactly one phase.
OnePhaseNamed ==
    /\ missionData.phase # ""
    /\ Cardinality({k \in Phases : missionData.phase \in PhaseNames[k]}) = 1

\* C1 (as the code has it): for every progress in [0, 1] a frame selects
\* exactly one phase, with a non-empty name, and a progress equal to a boundary
\* shared by two phases belongs to the phase that ends at that boundary (upper
\* bound inclusive).
C1_BoundaryEndsPhase ==
    (ticks > 0 /\ InUnit(progress)) =>
        /\ OnePhaseNamed
        /\ \A k \in Phases : UpperInclusive(k, progress) => missionData.phase \in PhaseNames[k]

\* C1 (as stated): the same, but a progress equal to a shared boundary belongs
\* to the phase that starts at that boundary (lower bound inclusive).
C1_BoundaryStartsPhase ==
    (ticks > 0 /\ InUnit(progress)) =>
        /\ OnePhaseNamed
        /\ \A k \in Phases : LowerInclusive(k, progress) => missionData.phase \in PhaseNames[k]

\* A frame at the boundary 0.72 that reported the phase ending there.
C1_FrameOnBoundary ==
    /\ ticks > 0
    /\ progress = Q(72, 100)
    /\ missionData.phase = "Orbital Liftoff & Ascent"

\* C2: after any sequence of frames the derived state (poses, visibility
\* flags, telemetry, exhaust intensity) depends only on the current progress
\* and the orbit accumulator.  A run of one frame with a zero delta ends with
\* the accumulator at 0, so every state with the accumulator at 0 has to carry
\* the derived state of that one-frame run at the same progress.
C2_HistoryFree ==
    (ticks > 0 /\ orbitTime = Zero) =>
        \A f \in {AnimationPhases(progress, Zero, InitScene, Zero)} :
            /\ scene = f.scene
            /\ missionData = f.missionData
            /\ exhaustIntensity = f.exhaustIntensity

SubjectPose(sc) ==
    [ rocketY |-> sc.rocketY, boosters |-> sc.boosters,
      fairingL |-> sc.fairingL, fairingR |-> sc.fairingR ]

\* C3: for every pair of adjacent phases, the subject pose (rocket height,
\* booster positions and roll, fairing positions and roll) the earlier phase
\* produces at the shared boundary equals the pose the later phase produces
\* there.
C3_BoundaryContinuity ==
    \A k \in 1..(Len(PhaseEnd) - 1) :
        (ticks > 0 /\ progress = Q(PhaseEnd[k], 100)) =>
            SubjectPose(PhaseBranch(k + 1, progress, deltaTime, scene, orbitTime).scene)
                = SubjectPose(scene)

\* C4: a progress sample outside [0, 1] is clamped into [0, 1] before the
\* phase chain and the telemetry sink use it.
C4_ProgressClamped ==
    ticks > 0 =>
        /\ InUnit(progress)
        /\ Ge(ui.scrollPercent, Zero)
        /\ Le(ui.scrollPercent, Num(100))

\* C5: for every progress sample and in every phase, the exhaust intensity
\* handed to the particle pool lies in [0, 1].
C5_IntensityInUnit == InUnit(exhaustIntensity)

\* A frame in the orbital liftoff whose ramp phaseProgress * 5 is past 1 and
\* was cut to 1.
C5_RampClamped ==
    /\ ticks > 0
    /\ progress = Q(70, 100)
    /\ missionData.phase = "Orbital Liftoff & Ascent"
    /\ exhaustIntensity = One

\* C6: the exhaust intensity is exactly 0 in the pre-launch phase (pre-launch
\* name, altitude and velocity both 0) and for every progress above 0.84
\* (fairing separation and orbital operations).
C6_DormantAndCoasting ==
    ticks > 0 =>
        /\ missionData.phase = "Pre-Launch Countdown" =>
               /\ exhaustIntensity = Zero
               /\ missionData.altitude = Zero
               /\ missionData.velocity = Zero
        /\ Le(progress, Q(5, 100)) => missionData.phase = "Pre-Launch Countdown"
        /\ Gt(progress, Q(84, 100)) =>
               /\ exhaustIntensity = Zero
               /\ missionData.phase \in {"Fairing Separation", "Orbital Operations"}

\* Frames in each of the three phases with the engines off.
C6_EnginesOff ==
    /\ ticks > 0
    /\ exhaustIntensity = Zero
    /\ \/ progress = Q(3, 100) /\ missionData.phase = "Pre-Launch Countdown"
       \/ progress = Q(90, 100) /\ missionData.phase = "Fairing Separation"

Slots == 1..PARTICLE_COUNT

\* Slot i holds a particle that was spawned and has not outlived its lifetime.
Alive(pl, i) == Le(pl.particles[i].age, pl.particles[i].lifetime)

\* The y entry of slot i in the position buffer is the sentinel.
Hidden(pl, i) == pl.positions[3 * i - 1] = HiddenY

\* C7: the capacity of the pool is fixed at construction: after any number of
\* updates the number of particle slots and the lengths of the position,
\* colour, size and alpha buffers equal their initial values.
C7_CapacityFixed ==
    /\ Len(pool.particles) = Len(InitParticles)
    /\ Len(pool.positions) = Len(InitPositions)
    /\ Len(pool.colors) = Len(InitColors)
    /\ Len(pool.sizes) = Len(InitSizes)
    /\ Len(pool.alphas) = Len(InitAlphas)

\* Two frames or more have run, one of them spawned a particle, and the pool
\* has the slots it started with.
C7_PoolInUse ==
    /\ ticks >= 2
    /\ \E i \in Slots : pool.particles[i].lifetime # Zero
    /\ Len(pool.particles) = PARTICLE_COUNT

\* What one update may do to a particle that was alive before it.
ExpiryHandled(i) ==
    Alive(pool, i) =>
        IF Gt(Add(pool.particles[i].age, deltaTime'), pool.particles[i].lifetime)
        THEN \/ /\ pool'.particles[i].age = Zero
                /\ Ge(pool'.particles[i].lifetime, Q(8, 10))
                /\ Le(pool'.particles[i].lifetime, Q(15, 10))
             \/ /\ Hidden(pool', i)
                /\ Le(Sub(pool'.particles[i].age, pool'.particles[i].lifetime), deltaTime')
        ELSE Alive(pool', i)

\* C8: a particle alive before an update never has its age exceed its
\* lifetime by more than that update's dt; in the update in which its age first
\* exceeds its lifetime it is respawned (age 0, fresh lifetime) or hidden (y at
\* the sentinel -999); no particle is past its lifetime without being hidden.
C8_ExpiredRespawnedOrHidden ==
    /\ [](\A i \in Slots : ~Alive(pool, i) => Hidden(pool, i))
    /\ [][ticks' = ticks + 1 => \A i \in Slots : ExpiryHandled(i)]_vars

\* A particle that was spawned has just outlived its lifetime, by no more
\* than the last dt, and is hidden.
C8_JustExpired ==
    \E i \in Slots :
        /\ pool.particles[i].lifetime # Zero
        /\ Gt(pool.particles[i].age, pool.particles[i].lifetime)
        /\ Le(Sub(pool.particles[i].age, pool.particles[i].lifetime), deltaTime)
        /\ Hidden(pool, i)

\* C9: while the updates run with intensity exactly 0, once their dt sum to
\* the maximum lifetime (1.5 s) every particle is hidden, and until its own
\* lifetime runs out a particle remains drawn (positive size and alpha), so
\* the plume does not disappear in the first intensity-0 update.
C9_PlumeDecays ==
    (ticks > 0 /\ exhaustIntensity = Zero) =>
        \A i \in Slots :
            /\ Ge(idleTime, Q(15, 10)) => ~Alive(pool, i) /\ Hidden(pool, i)
            /\ Lt(pool.particles[i].age, pool.particles[i].lifetime) =>
                   /\ Gt(pool.sizes[i], Zero)
                   /\ Gt(pool.alphas[i], Zero)

\* C10: the orbit accumulator is changed only by frames whose progress is
\* above 0.94, which add half their dt; every other frame and every other step
\* leaves it as it is, so it is never reset.
C10_OrbitTimeOnlyInOrbit ==
    [][ /\ ticks' = ticks => orbitTime' = orbitTime
        /\ (ticks' = ticks + 1 /\ ~Gt(progress', Q(94, 100))) => orbitTime' = orbitTime
        /\ (ticks' = ticks + 1 /\ Gt(progress', Q(94, 100))) =>
               orbitTime' = Add(orbitTime, Mul(deltaTime', Q(1, 2))) ]_vars

\* The orbital phase re-entered from another phase: the accumulator holds
\* more than this frame's share.
C10_ReEntered ==
    /\ Gt(progress, Q(94, 100))
    /\ prevPhase \notin {"", "Orbital Operations"}
    /\ Gt(orbitTime, Mul(deltaTime, Q(1, 2)))

\* C11: over frames with non-negative delta time the orbit accumulator never
\* decreases; a frame in the orbital phase with delta time > 0 increases it by
\* half the delta, and the satellite's orbital pose is the one of the
\* accumulator's angle, so two such frames at the same progress differ in pose.
C11_OrbitDrivenByTime ==
    [][ /\ Ge(orbitTime', orbitTime)
        /\ (ticks' = ticks + 1 /\ missionData'.phase = "Orbital Operations") =>
               /\ scene'.satPosition = [kind |-> "orbit", radius |-> Num(earthRadius + 75),
                                        angle |-> orbitTime']
               /\ scene'.satRotation = [kind |-> "orbit", angle |-> orbitTime']
               /\ Gt(deltaTime', Zero) =>
                      /\ Gt(orbitTime', orbitTime)
                      /\ orbitTime' = Add(orbitTime, Mul(deltaTime', Q(1, 2)))
                      /\ scene'.satPosition # scene.satPosition ]_vars

\* Two consecutive frames at p = 1, the second one second later: the
\* satellite is half a radian further on its orbit.
C11_SameProgressLater ==
    /\ progress = One
    /\ prevPhase = "Orbital Operations"
    /\ missionData.phase = "Orbital Operations"
    /\ Gt(deltaTime, Zero)
    /\ Gt(orbitTime, Mul(deltaTime, Q(1, 2)))
    /\ scene.satPosition.angle = orbitTime

\* The steps whose targets are points with number coordinates.
Rational(steps) == \A i \in 1..Len(steps) : steps[i].targetCamPos.kind = "xyz"

Axes == {"x", "y", "z"}

\* On one axis: from a towards t, b is strictly nearer, on the same side of
\* t, and not at t; from t, b stays at t.
Nearer(t, a, b) ==
    IF a = t THEN b = t
    ELSE /\ Sgn(Sub(t, b)[1]) = Sgn(Sub(t, a)[1])
         /\ Lt(Sub(t, b), Sub(t, a)) = Gt(Sub(t, a), Zero)
         /\ Gt(Sub(t, b), Sub(t, a)) = Lt(Sub(t, a), Zero)

\* C12: a frame whose target is that of the frame before it leaves, on every
\* axis, the fraction 1 - lerpFactor of the remaining offset, with lerpFactor
\* strictly between 0 and 1: the camera is strictly nearer while it is not at
\* the target, never farther, never on the other side, and the offset shrinks
\* geometrically.
C12_HeldTargetApproached ==
    LET n == Len(camera)
    IN  (n >= 2 /\ Rational(camera) /\ camera[n].targetCamPos = camera[n - 1].targetCamPos) =>
            LET t  == camera[n].targetCamPos
                f  == camera[n].lerpFactor
                p0 == CameraPosition(camera, n - 1)
                p1 == CameraPosition(camera, n)
            IN  /\ Gt(f, Zero) /\ Lt(f, One)
                /\ \A c \in Axes : /\ Sub(t[c], p1[c]) = Mul(Sub(t[c], p0[c]), Sub(One, f))
                                    /\ Nearer(t[c], p0[c], p1[c])

\* Two frames with the same target, the camera still away from it.
C12_TargetHeld ==
    /\ Len(camera) = 2
    /\ Rational(camera)
    /\ camera[2].targetCamPos = camera[1].targetCamPos
    /\ CameraPosition(camera, 1) # camera[2].targetCamPos

\* C13: in every frame, whatever the camera angle of the frame before and of
\* this one, the camera moves by lerpFactor of the offset to the frame's
\* target, lerpFactor being 0.012 or 0.04, and does not land on a target it
\* was away from.
C13_NoTeleport ==
    LET n == Len(camera)
    IN  (n >= 1 /\ Rational(camera)) =>
            LET t  == camera[n].targetCamPos
                f  == camera[n].lerpFactor
                p0 == CameraPosition(camera, n - 1)
                p1 == CameraPosition(camera, n)
            IN  /\ f \in {Q(12, 1000), Q(4, 100)}
                /\ \A c \in Axes : Sub(p1[c], p0[c]) = Mul(Sub(t[c], p0[c]), f)
                /\ p0 # t => p1 # t

\* The first frame after a change of camera angle, with a new target.
C13_FrameAfterSwitch ==
    /\ Len(camera) = 2
    /\ Rational(camera)
    /\ camera[2].cameraAngle # camera[1].cameraAngle
    /\ camera[2].targetCamPos # camera[1].targetCamPos
    /\ progress = Q(78, 100)

\* C14: the sink receives a value only in a frame, once, and only in a frame
\* whose timestamp is more than 16 ms after that of the last emitting frame;
\* a frame at most 16 ms after it emits nothing, however many such frames
\* there are; an emitting frame becomes the last emitting frame.
C14_TelemetryThrottled ==
    /\ [](lastUIUpdate <= time)
    /\ [][ /\ (ui' # ui \/ lastUIUpdate' # lastUIUpdate) =>
                 /\ ticks' = ticks + 1
                 /\ time' - lastUIUpdate > 16
                 /\ lastUIUpdate' = time'
                 /\ ui' = [scrollPercent |-> scrollState.percent,
                           missionData |-> missionData']
           /\ (ticks' = ticks + 1 /\ time' - lastUIUpdate <= 16) =>
                 /\ ui' = ui
                 /\ lastUIUpdate' = lastUIUpdate ]_vars

\* Two frames have run since the last emission, both inside its period.
C14_TwoFramesHeldBack ==
    /\ lastUIUpdate > 0
    /\ time = lastUIUpdate + 16
    /\ ticks = 3
    /\ ui.scrollPercent # scrollState.percent

\* C15: once the cleanup has run there is no pending animation frame, and no
\* later step runs a frame body, emits telemetry, requests a frame or
\* remounts, whether the cleanup came before the loading callback, before the
\* first frame or between two frames.
C15_StoppedForGood ==
    /\ [](~isMounted => animationFrame = "none")
    /\ [][ ~isMounted =>
              /\ ~isMounted'
              /\ animationFrame' = "none"
              /\ ticks' = ticks /\ time' = time
              /\ ui' = ui /\ lastUIUpdate' = lastUIUpdate
              /\ scene' = scene /\ pool' = pool /\ camera' = camera ]_vars

\* The loading callback has run after the cleanup.
C15_LoadedAfterTeardown == ~isMounted /\ loaded /\ ticks = 0

\* C16: after the cleanup no listener registered at mount is subscribed, the
\* canvas is out of the document and the renderer is disposed, with or without
\* frames run and in whatever phase; until then everything stays acquired.
C16_AllReleased ==
    /\ ~isMounted => /\ resources.listeners = {}
                     /\ ~resources.domElement
                     /\ resources.renderer = "disposed"
    /\ isMounted => resources = Acquired

\* The cleanup has run in mid-flight, after frames have run.
C16_TornDownInFlight ==
    ~isMounted /\ ticks > 0 /\ missionData.phase = "Booster Separation"

\* C17: after a texture request has failed no frame is requested, no frame
\* runs and the loading flag is not cleared as if loading had succeeded.
C17_NoLoopAfterFailure ==
    assetFailed => /\ animationFrame = "none"
                   /\ ticks = 0
                   /\ loading

\* C18: for every progress sample, the local progress the selected phase
\* hands to its easing function lies in [0, 1], and is 1 at the phase's end
\* boundary.
C18_LocalProgressInUnit ==
    ticks > 0 =>
        \A k \in Phases \ {5} :
            PhaseIndex(progress) = k =>
                /\ InUnit(LocalProgress(k, progress))
                /\ progress = Q(PhaseEnd[k], 100) => LocalProgress(k, progress) = One

\* Both scenes are drawn at progress q/100 of the transition.
BothScenesAt(q) ==
    \A f \in {AscendingToOrbit(Q(q, 100), InitScene, Zero)} :
        f.scene.groundVisible /\ f.scene.earthVisible

\* C19: in the ground-to-space transition (0.35 < p <= 0.50) the earth and
\* the stars are shown before the ground is hidden: whenever the ground is
\* hidden both are visible, at no progress is neither the ground nor the earth
\* visible, and at some progress of the phase both are visible.
C19_CrossFadeOverlaps ==
    (ticks > 0 /\ missionData.phase = "Ascending to Orbit") =>
        /\ scene.groundVisible \/ scene.earthVisible
        /\ ~scene.groundVisible => scene.earthVisible /\ scene.starsVisible
        /\ scene.starsVisible => scene.earthVisible
        /\ \E q \in 36..50 : BothScenesAt(q)

\* A frame in the middle of the transition with the ground and the earth both
\* drawn.
C19_BothVisible ==
    /\ ticks > 0
    /\ missionData.phase = "Ascending to Orbit"
    /\ progress = Q(42, 100)
    /\ scene.groundVisible
    /\ scene.earthVisible

\* C20: in the booster phase (0.72 < p <= 0.84) the stageSep threshold is the
\* single gate.  At or below it both boosters are in the attached pose with
\* zero roll, the intensity is 1 and the phase is 'Orbital Ascent'; above it
\* the left booster is at more negative x and the right one at more positive
\* x, both are rolled, the intensity is below 1, not below 0.7, and 0.7 at the
\* end of the phase, and the phase is 'Booster Separation'.
C20_StageSepGate ==
    (ticks > 0 /\ Gt(progress, Q(72, 100)) /\ Le(progress, Q(84, 100))) =>
        IF Le(easeInOutCubic(LocalProgress(8, progress)), Q(3, 10))
        THEN /\ scene.boosters[1] = [x |-> Q(-35, 10), y |-> Zero, z |-> Num(-2), rz |-> Zero]
             /\ scene.boosters[2] = [x |-> Q(35, 10), y |-> Zero, z |-> Num(-2), rz |-> Zero]
             /\ exhaustIntensity = One
             /\ missionData.phase = "Orbital Ascent"
        ELSE /\ Lt(scene.boosters[1].x, Q(-35, 10))
             /\ Gt(scene.boosters[2].x, Q(35, 10))
             /\ Lt(scene.boosters[1].rz, Zero)
             /\ Gt(scene.boosters[2].rz, Zero)
             /\ Lt(exhaustIntensity, One)
             /\ Ge(exhaustIntensity, Q(7, 10))
             /\ progress = Q(84, 100) => exhaustIntensity = Q(7, 10)
             /\ missionData.phase = "Booster Separation"

\* A frame just above the gate: the boosters have left the attached pose.
C20_AboveGate ==
    /\ ticks > 0
    /\ progress = Q(78, 100)
    /\ missionData.phase = "Booster Separation"
    /\ scene.boosters[1].x # Q(-35, 10)


\* The names of the phases of the ground sequence.
GroundPhaseNames ==
    {"Pre-Launch Countdown", "Ignition Sequence", "Ground Liftoff", "Ascending to Orbit"}

\* C21: the frame's smoothing factor is 0.012 in every phase of the ground
\* sequence (pre-launch, ignition, liftoff and the transition) and in Orbital
\* Approach up to p = 0.51, the end of the scripted camera sequence, and 0.04
\* at every later progress.
C21_SlowThroughGroundSequence ==
    ticks = 1 =>
        /\ camera[1].lerpFactor \in {Q(12, 1000), Q(4, 100)}
        /\ camera[1].lerpFactor = Q(12, 1000) <=>
              \/ missionData.phase \in GroundPhaseNames
              \/ missionData.phase = "Orbital Approach" /\ Le(progress, Q(51, 100))

\* A pre-launch frame smoothed with the smaller factor.
C21_SlowBeforeLaunch ==
    /\ ticks = 1
    /\ progress = Q(3, 100)
    /\ missionData.phase = "Pre-Launch Countdown"
    /\ camera[1].lerpFactor = Q(12, 1000)

\* C21 as stated: the smaller factor exactly in the ground-to-space
\* transition phase, the larger one in every other phase.
C21_SlowOnlyInTransition ==
    ticks = 1 =>
        (camera[1].lerpFactor = Q(12, 1000) <=> missionData.phase = "Ascending to Orbit")

\* The update left slot i expired: it took the hide branch.
LeftExpired(i) == Expired(pool'.particles[i])

\* C22: an update that finds a particle expired and does not respawn it
\* writes the sentinel to the y entry of its position and nothing else: the
\* x and z entries, the colour, size and alpha entries and the particle's
\* lifetime, position and velocity are as before; only its age has advanced.
C22_HideWritesSentinelOnly ==
    [][ ticks' = ticks + 1 =>
          \A i \in Slots :
              LeftExpired(i) =>
                  /\ pool'.positions[3 * i - 1] = HiddenY
                  /\ pool'.positions[3 * i - 2] = pool.positions[3 * i - 2]
                  /\ pool'.positions[3 * i] = pool.positions[3 * i]
                  /\ \A c \in 0..2 : pool'.colors[3 * i - c] = pool.colors[3 * i - c]
                  /\ pool'.sizes[i] = pool.sizes[i]
                  /\ pool'.alphas[i] = pool.alphas[i]
                  /\ pool'.particles[i].lifetime = pool.particles[i].lifetime
                  /\ pool'.particles[i].position = pool.particles[i].position
                  /\ pool'.particles[i].velocity = pool.particles[i].velocity
                  /\ pool'.particles[i].age = Add(pool.particles[i].age, deltaTime') ]_vars

\* A particle that was drawn has been hidden: the sentinel is in place and
\* the size, alpha and colour of its last drawn frame are still in the buffers.
C22_HiddenWithStaleEntries ==
    \E i \in Slots :
        /\ Expired(pool.particles[i])
        /\ pool.positions[3 * i - 1] = HiddenY
        /\ pool.positions[3 * i] # Zero
        /\ pool.sizes[i] # Zero
        /\ pool.alphas[i] # Zero
        /\ pool.colors[3 * i] # Zero

\* C23: a slot the last update drew (not expired after it) has a strictly
\* positive lifetime and an age ratio in [0, 1], and the alpha written for it
\* is (1 - ageRatio^2) * intensity, between 0 and the intensity; no alpha entry
\* of the buffer is ever negative, above 1 or not a number.
C23_AgeRatioInUnit ==
    \A i \in Slots :
        /\ Ge(pool.alphas[i], Zero) /\ Le(pool.alphas[i], One)
        /\ Alive(pool, i) =>
              /\ Gt(pool.particles[i].lifetime, Zero)
              /\ Ge(pool.particles[i].age, Zero)
              /\ InUnit(AgeRatio(pool.particles[i]))
              /\ pool.alphas[i] = ParticleAlpha(AgeRatio(pool.particles[i]), exhaustIntensity)
              /\ Le(pool.alphas[i], exhaustIntensity)

\* A particle part of the way through its lifetime, drawn with an alpha
\* strictly between 0 and the intensity.
C23_MidLife ==
    \E i \in Slots :
        /\ Alive(pool, i)
        /\ AgeRatio(pool.particles[i]) = Q(5, 6)
        /\ Gt(pool.alphas[i], Zero)
        /\ Lt(pool.alphas[i], exhaustIntensity)

\* The last frame ran the Orbital Operations branch at a progress in (0.94, 1].
InOrbitalOperations ==
    /\ ticks > 0
    /\ Gt(progress, Q(94, 100))
    /\ Le(progress, One)
    /\ missionData.phase = "Orbital Operations"

\* C24: at the end of every frame in Orbital Operations the satellite is
\* visible, whatever progress the frames before it sampled and also when it
\* is the first frame.
C24_SatelliteVisibleInOrbit == InOrbitalOperations => scene.satVisible

\* C25: at the end of every frame in Orbital Operations the earth and the
\* stars are visible and the ground scene is hidden, whatever progress the
\* frames before it sampled and also when it is the first frame.
C25_SpaceViewInOrbit ==
    InOrbitalOperations =>
        /\ ~scene.groundVisible
        /\ scene.earthVisible
        /\ scene.starsVisible

NonNegative(mission) == Ge(mission.altitude, Zero) /\ Ge(mission.velocity, Zero)

C27_LoopStartsAfterLoading ==
    /\ [](~loaded => animationFrame = "none" /\ ticks = 0 /\ loading)
    /\ [](ticks > 0 \/ animationFrame = "requested" => loaded /\ ~loading)
    /\ [][ (animationFrame = "none" /\ animationFrame' = "requested") =>
              ~loaded /\ loaded' /\ isMounted /\ ~loading' /\ ticks = 0 ]_vars
    /\ [][ (~isMounted /\ ~loaded) => animationFrame' = "none" /\ ticks' = 0 ]_vars

\* The first frame has run, after loading, in a mounted component.
C27_FirstFrameAfterLoading ==
    /\ ticks = 1
    /\ loaded
    /\ ~loading
    /\ isMounted
    /\ animationFrame = "requested"

TMinus == [n \in 1..10 |-> "T-00:00:" \o PadStart2(n)]

\* The value a countdown text shows; 0 for 'LIFTOFF'.
Shown(text) == IF text = "LIFTOFF" THEN 0 ELSE CHOOSE n \in 1..10 : TMinus[n] = text

PreLiftoffPhaseNames == {"Pre-Launch Countdown", "Ignition Sequence"}

\* C29: for the scroll percent and mission data the overlay received from
\* one frame, a T-minus countdown goes with a pre-liftoff phase and every
\* liftoff or later phase goes with 'LIFTOFF'; the text is 'LIFTOFF' or a
\* T-minus value between 01 and 10, and the value does not increase with the
\* scroll percent.
C29_CountdownAgreesWithPhase ==
    (lastUIUpdate > 0 /\ InUnit(progress)) =>
        LET text == getCountdown(ui.scrollPercent)
        IN  /\ text = "LIFTOFF" \/ \E n \in 1..10 : text = TMinus[n]
            /\ text # "LIFTOFF" => ui.missionData.phase \in PreLiftoffPhaseNames
            /\ ui.missionData.phase \notin PreLiftoffPhaseNames => text = "LIFTOFF"
            /\ \A a \in 0..100 :
                  a <= MathFloor(ui.scrollPercent) =>
                      Shown(getCountdown(Num(a))) >= Shown(text)

\* The shot of the last frame had the camera angle been a.
ShotUnder(a) == CameraControl(progress, a, scene, "rocket", orbitTime, matrixWorld)

=============================================================================
